---------------------------- MODULE Spec2Model ----------------------------
(***************************************************************************)
(* The training driver of train_single_gpu.py: main() and the helpers it   *)
(* calls (prepare_training, train, eval_psnr, save_model), as one          *)
(* sequential process whose position is pc.                                *)
(*                                                                         *)
(* Python's None and an absent mapping key are the empty sequence <<>>; a  *)
(* present value x is <<x>>.                                               *)
(*                                                                         *)
(* A float is a record [nan, v].  v is the signed decimal magnitude code   *)
(* of a sample float: 0 is 0.0, k > 0 is 10^(k-1) and k < 0 is             *)
(* -(10^(-k-1)), so that 1e8 is 9 and -1e18 is -19.  The code preserves    *)
(* order; NaN compares false with everything, as in Python.                *)
(***************************************************************************)
EXTENDS Integers, Sequences, FiniteSets, TLC

VARIABLES
    config,       \* the configuration mapping (global config)
    pc,           \* position of main()
    model,        \* model parameters: [sd, pretrained]
    optimizer,    \* optimizer state: [trained, lr_steps]
    epoch_start,  \* local of main
    epoch,        \* loop variable of main
    max_val_v,    \* best-metric tracker, <<>> before line 156
    result,       \* (result1..result4) of the current validation, <<>> if none
    metric,       \* (metric1..metric4) of the current validation, <<>> if none
    log_info,     \* progress line being built for the current epoch
    files,        \* what this run wrote under save_path
    log,          \* the text log: progress lines appended by log(...)
    scalars,      \* writer.add_scalar(s): set of <<tag, epoch>>
    reads,        \* files read with torch.load by this run, in order
    trace         \* history: the steps taken, as <<epoch, step>>

vars == <<config, pc, model, optimizer, epoch_start, epoch, max_val_v, result,
          metric, log_info, files, log, scalars, reads, trace>>

---------------------------------------------------------------------------
(* Bounds of the model *)

MaxEpochMax == 3
MaxResume == 3
MaxEpochVal == 2

---------------------------------------------------------------------------
(* Floats *)

Float(k) == [nan |-> FALSE, v |-> k]
NaN == [nan |-> TRUE, v |-> 0]

FloatGt(a, b) == ~a.nan /\ ~b.nan /\ a.v > b.v
FloatLt(a, b) == ~a.nan /\ ~b.nan /\ a.v < b.v

\* line 156: the two literals -1e18 and 1e8, as magnitude codes
NonBerInit == -19
BerInit == 9

\* sample metric values a metric function may return
Values ==
    {Float(NonBerInit - 1), Float(NonBerInit), Float(0), Float(1),
     Float(BerInit), Float(BerInit + 1), NaN}

---------------------------------------------------------------------------
(* Configuration *)

None == <<>>
Some(x) == <<x>>
Get(o) == o[1]

KnownEvalTypes == {"f1", "fmeasure", "ber", "cod"}
EvalTypes == KnownEvalTypes \cup {"other"}

Configs ==
    [resume         : {None} \cup {Some(r) : r \in 1..MaxResume},
     epoch_max      : 1..MaxEpochMax,
     epoch_val      : {None} \cup {Some(v) : v \in 0..MaxEpochVal},
     eval_type      : EvalTypes,
     data_norm      : {None, Some("user")},
     sam_checkpoint : {None, Some("sam.pth")},
     model          : {[name |-> "sam", sd |-> None]},
     optimizer      : {[name |-> "adamw", sd |-> None]}]

DefaultDataNorm == Some("default")

---------------------------------------------------------------------------
(* Pure helpers *)

\* the bug of resuming at the epoch already done
EpochStartNoIncrement(cfg) ==
    IF cfg.resume # None THEN Get(cfg.resume) ELSE 1

\* prepare_training, lines 71-80
EpochStart(cfg) ==
    IF cfg.resume # None THEN Get(cfg.resume) + 1 ELSE 1

\* line 156
InitMaxValV(eval_type) ==
    IF eval_type # "ber" THEN Float(NonBerInit) ELSE Float(BerInit)

\* the bug of a dispatch with the 'cod' branch missing
MetricFnBoundNoCod(eval_type) == eval_type \in {"f1", "fmeasure", "ber"}

\* eval_psnr, lines 35-46: is metric_fn bound
MetricFnBound(eval_type) == eval_type \in KnownEvalTypes

\* eval_psnr, lines 35-46: metric1..metric4
MetricNames(eval_type) ==
    CASE eval_type = "f1"       -> <<"f1", "auc", "none", "none">>
      [] eval_type = "fmeasure" -> <<"f_mea", "mae", "none", "none">>
      [] eval_type = "ber"      -> <<"shadow", "non_shadow", "ber", "none">>
      [] eval_type = "cod"      -> <<"sm", "em", "wfm", "mae">>

\* the bug of a test without the modulus: validate in every epoch
ShouldValidateEveryEpoch(epoch_val, e) ==
    epoch_val # None

\* line 171: epoch_val is known to be an integer > 0 here
ShouldValidate(epoch_val, e) ==
    epoch_val # None /\ e % Get(epoch_val) = 0

\* lines 184-191: the value compared with the tracker
CompareMetric(eval_type, res) ==
    IF eval_type # "ber" THEN res[1] ELSE res[3]

\* the bug of comparing with >= and <=
ImprovesNotStrict(eval_type, res, best) ==
    IF eval_type # "ber"
    THEN ~res[1].nan /\ ~best.nan /\ res[1].v >= best.v
    ELSE ~res[3].nan /\ ~best.nan /\ res[3].v <= best.v

\* lines 185 and 189
Improves(eval_type, res, best) ==
    IF eval_type # "ber" THEN FloatGt(res[1], best) ELSE FloatLt(res[3], best)

\* save_model, lines 106-109: config['model'] and config['optimizer'] are
\* the very dicts the 'sd' entries are stored in
ConfigAfterSave(cfg, m, o) ==
    [cfg EXCEPT !.model.sd = Some(m), !.optimizer.sd = Some(o)]

\* save_model, lines 111-115: the record written to model_<name>.pth
CheckpointRecord(cfg, m, o) ==
    [model_spec     |-> ConfigAfterSave(cfg, m, o).model,
     optimizer_spec |-> ConfigAfterSave(cfg, m, o).optimizer]

\* save_model, lines 111-115
FilesAfterSave(f, name, cfg, m, o) ==
    [f EXCEPT ![name] = Some(CheckpointRecord(cfg, m, o))]

Step(s) == <<epoch, s>>

---------------------------------------------------------------------------
(* Initial state: main(config_, save_path) is entered *)

Init ==
    /\ config \in Configs
    /\ pc = "main"
    /\ model = [sd |-> 0, pretrained |-> FALSE]
    /\ optimizer = [trained |-> 0, lr_steps |-> 0]
    /\ epoch_start = 0
    /\ epoch = 0
    /\ max_val_v = None
    /\ result = None
    /\ metric = None
    /\ log_info = None
    /\ files = [config_yaml |-> None, last |-> None, best |-> None]
    /\ log = <<>>
    /\ scalars = {}
    /\ reads = <<>>
    /\ trace = <<>>

---------------------------------------------------------------------------
(* main, before the loop *)

\* lines 119-122
DumpConfig ==
    /\ pc = "main"
    /\ files' = [files EXCEPT !.config_yaml = Some(config)]
    /\ pc' = "data_norm"
    /\ UNCHANGED <<config, model, optimizer, epoch_start, epoch, max_val_v,
                   result, metric, log_info, log, scalars, reads, trace>>

\* lines 124-129
InjectDataNorm ==
    /\ pc = "data_norm"
    /\ config' = IF config.data_norm = None
                 THEN [config EXCEPT !.data_norm = DefaultDataNorm]
                 ELSE config
    /\ pc' = "prepare"
    /\ UNCHANGED <<model, optimizer, epoch_start, epoch, max_val_v, result,
                   metric, log_info, files, log, scalars, reads, trace>>

\* lines 131-135 and prepare_training, lines 70-84: both branches build a
\* fresh model and optimizer; nothing is loaded
PrepareTraining ==
    /\ pc = "prepare"
    /\ model' = [sd |-> 0, pretrained |-> FALSE]
    /\ optimizer' = [trained |-> 0, lr_steps |-> 0]
    /\ epoch_start' = EpochStart(config)
    /\ pc' = "pretrained"
    /\ UNCHANGED <<config, epoch, max_val_v, result, metric, log_info, files,
                   log, scalars, reads, trace>>

\* lines 138-152
LoadPretrained ==
    /\ pc = "pretrained"
    /\ IF config.sam_checkpoint # None
       THEN /\ reads' = Append(reads, Get(config.sam_checkpoint))
            /\ model' = [model EXCEPT !.pretrained = TRUE]
       ELSE UNCHANGED <<reads, model>>
    /\ pc' = "init_loop"
    /\ UNCHANGED <<config, optimizer, epoch_start, epoch, max_val_v, result,
                   metric, log_info, files, log, scalars, trace>>

\* lines 154-157, and range(epoch_start, epoch_max + 1) of line 159
InitLoop ==
    /\ pc = "init_loop"
    /\ max_val_v' = Some(InitMaxValV(config.eval_type))
    /\ epoch' = epoch_start
    /\ pc' = "loop"
    /\ UNCHANGED <<config, model, optimizer, epoch_start, result, metric,
                   log_info, files, log, scalars, reads, trace>>

---------------------------------------------------------------------------
(* The epoch loop, lines 159-200 *)

\* line 159: the next value of the range, or the end of the loop
LoopHead ==
    /\ pc = "loop"
    /\ pc' = IF epoch <= config.epoch_max THEN "train" ELSE "done"
    /\ UNCHANGED <<config, model, optimizer, epoch_start, epoch, max_val_v,
                   result, metric, log_info, files, log, scalars, reads, trace>>

\* lines 160-161 and train, lines 86-102
Train ==
    /\ pc = "train"
    /\ model' = [model EXCEPT !.sd = epoch]
    /\ optimizer' = [optimizer EXCEPT !.trained = epoch]
    /\ trace' = Append(trace, Step("train"))
    /\ pc' = "sched"
    /\ UNCHANGED <<config, epoch_start, epoch, max_val_v, result, metric,
                   log_info, files, log, scalars, reads>>

\* line 162
SchedStep ==
    /\ pc = "sched"
    /\ optimizer' = [optimizer EXCEPT !.lr_steps = @ + 1]
    /\ trace' = Append(trace, Step("sched"))
    /\ pc' = "scalars"
    /\ UNCHANGED <<config, model, epoch_start, epoch, max_val_v, result,
                   metric, log_info, files, log, scalars, reads>>

\* lines 164-167
TrainScalars ==
    /\ pc = "scalars"
    /\ log_info' = Some([epoch |-> epoch, val |-> None])
    /\ scalars' = scalars \cup {<<"lr", epoch>>, <<"loss", epoch>>}
    /\ trace' = Append(trace, Step("scalars"))
    /\ pc' = "save_last"
    /\ UNCHANGED <<config, model, optimizer, epoch_start, epoch, max_val_v,
                   result, metric, files, log, reads>>

\* the bug of writing model_last.pth inside the validation branch only
SaveLastOnlyWhenValidating ==
    /\ pc = "save_last"
    /\ IF /\ config.epoch_val # None
          /\ Get(config.epoch_val) > 0
          /\ epoch % Get(config.epoch_val) = 0
       THEN /\ config' = ConfigAfterSave(config, model, optimizer)
            /\ files' = FilesAfterSave(files, "last", config, model, optimizer)
            /\ trace' = Append(trace, Step("save_last"))
       ELSE UNCHANGED <<config, files, trace>>
    /\ pc' = "check_val"
    /\ UNCHANGED <<model, optimizer, epoch_start, epoch, max_val_v, result,
                   metric, log_info, log, scalars, reads>>

\* line 169 and save_model, lines 104-115
SaveLast ==
    /\ pc = "save_last"
    /\ config' = ConfigAfterSave(config, model, optimizer)
    /\ files' = FilesAfterSave(files, "last", config, model, optimizer)
    /\ trace' = Append(trace, Step("save_last"))
    /\ pc' = "check_val"
    /\ UNCHANGED <<model, optimizer, epoch_start, epoch, max_val_v, result,
                   metric, log_info, log, scalars, reads>>

\* line 171: epoch % 0 raises ZeroDivisionError
CheckVal ==
    /\ pc = "check_val"
    /\ pc' = IF config.epoch_val = None THEN "next"
             ELSE IF Get(config.epoch_val) = 0 THEN "error"
             ELSE IF ShouldValidate(config.epoch_val, epoch) THEN "eval"
             ELSE "next"
    /\ UNCHANGED <<config, model, optimizer, epoch_start, epoch, max_val_v,
                   result, metric, log_info, files, log, scalars, reads, trace>>

\* lines 172-173 and eval_psnr, lines 32-68, metric_fn bound
EvalPsnr ==
    /\ pc = "eval"
    /\ MetricFnBound(config.eval_type)
    /\ \E r1, r3 \in Values :
           result' = Some(<<r1, Float(0), r3, Float(0)>>)
    /\ metric' = Some(MetricNames(config.eval_type))
    /\ trace' = Append(trace, Step("val"))
    /\ pc' = "val_scalars"
    /\ UNCHANGED <<config, model, optimizer, epoch_start, epoch, max_val_v,
                   log_info, files, log, scalars, reads>>

\* lines 172-173 and eval_psnr, lines 32-68, metric_fn unbound: line 66
\* raises UnboundLocalError
EvalPsnrUnbound ==
    /\ pc = "eval"
    /\ ~MetricFnBound(config.eval_type)
    /\ trace' = Append(trace, Step("val_error"))
    /\ pc' = "error"
    /\ UNCHANGED <<config, model, optimizer, epoch_start, epoch, max_val_v,
                   result, metric, log_info, files, log, scalars, reads>>

\* lines 175-182
ValScalars ==
    /\ pc = "val_scalars"
    /\ log_info' = Some([Get(log_info) EXCEPT !.val = Some(Get(metric))])
    /\ scalars' = scalars \cup {<<Get(metric)[i], epoch>> : i \in 1..4}
    /\ trace' = Append(trace, Step("val_scalars"))
    /\ pc' = "compare"
    /\ UNCHANGED <<config, model, optimizer, epoch_start, epoch, max_val_v,
                   result, metric, files, log, reads>>

\* the bug of passing 'last' for 'best' at lines 187 and 191
CompareBestWritesLast ==
    /\ pc = "compare"
    /\ IF Improves(config.eval_type, Get(result), Get(max_val_v))
       THEN /\ max_val_v' = Some(CompareMetric(config.eval_type, Get(result)))
            /\ config' = ConfigAfterSave(config, model, optimizer)
            /\ files' = FilesAfterSave(files, "last", config, model, optimizer)
            /\ trace' = Append(trace, Step("save_last"))
       ELSE UNCHANGED <<max_val_v, config, files, trace>>
    /\ pc' = "log"
    /\ UNCHANGED <<model, optimizer, epoch_start, epoch, result, metric,
                   log_info, log, scalars, reads>>

\* lines 184-191
CompareBest ==
    /\ pc = "compare"
    /\ IF Improves(config.eval_type, Get(result), Get(max_val_v))
       THEN /\ max_val_v' = Some(CompareMetric(config.eval_type, Get(result)))
            /\ config' = ConfigAfterSave(config, model, optimizer)
            /\ files' = FilesAfterSave(files, "best", config, model, optimizer)
            /\ trace' = Append(trace, Step("save_best"))
       ELSE UNCHANGED <<max_val_v, config, files, trace>>
    /\ pc' = "log"
    /\ UNCHANGED <<model, optimizer, epoch_start, epoch, result, metric,
                   log_info, log, scalars, reads>>

\* lines 193-200: inside the validation branch
LogEpoch ==
    /\ pc = "log"
    /\ log' = Append(log, Get(log_info))
    /\ trace' = Append(trace, Step("log"))
    /\ pc' = "next"
    /\ UNCHANGED <<config, model, optimizer, epoch_start, epoch, max_val_v,
                   result, metric, log_info, files, scalars, reads>>

\* line 159: the loop takes the next epoch; the validation's locals are
\* not read again before they are rebound
NextEpoch ==
    /\ pc = "next"
    /\ epoch' = epoch + 1
    /\ result' = None
    /\ metric' = None
    /\ pc' = "loop"
    /\ UNCHANGED <<config, model, optimizer, epoch_start, max_val_v, log_info,
                   files, log, scalars, reads, trace>>

Next ==
    \/ DumpConfig
    \/ InjectDataNorm
    \/ PrepareTraining
    \/ LoadPretrained
    \/ InitLoop
    \/ LoopHead
    \/ Train
    \/ SchedStep
    \/ TrainScalars
    \/ SaveLast
    \/ CheckVal
    \/ EvalPsnr
    \/ EvalPsnrUnbound
    \/ ValScalars
    \/ CompareBest
    \/ LogEpoch
    \/ NextEpoch

Spec == Init /\ [][Next]_vars


\* the scheduling of a single thread whose blocking calls return: a step
\* that can be taken is taken
FairSpec == Spec /\ WF_vars(Next)

---------------------------------------------------------------------------
(* Reading the history *)

Count(e, s) == Cardinality({i \in DOMAIN trace : trace[i] = <<e, s>>})
Did(e, s) == \E i \in DOMAIN trace : trace[i] = <<e, s>>
Executed(e) == Did(e, "train")
Epochs == {trace[i][1] : i \in DOMAIN trace}
\* epoch e has run to the end of the loop body
Completed(e) == Executed(e) /\ (e < epoch \/ pc = "next")
BestWrites == Cardinality({i \in DOMAIN trace : trace[i][2] = "save_best"})
ValCount == Cardinality({i \in DOMAIN trace : trace[i][2] = "val"})
\* the record save_model writes for the state reached by training epoch e
\* as the k-th epoch of the run
RecordOf(e, k) ==
    [model_spec     |-> [name |-> config.model.name,
                         sd   |-> Some([sd |-> e, pretrained |->
                                        config.sam_checkpoint # None])],
     optimizer_spec |-> [name |-> config.optimizer.name,
                         sd   |-> Some([trained |-> e, lr_steps |-> k])]]
FirstEpoch == IF config.resume = None THEN 1 ELSE Get(config.resume) + 1

---------------------------------------------------------------------------
(* C1 *)

\* C1: once initialised, the tracker max_val_v changes only in the
\* comparison step of a validation whose comparison metric is strictly
\* better than the tracker (result1 strictly greater, or for 'ber' result3
\* strictly smaller); it then takes that metric's value and model_best.pth
\* is written with the current model; model_best.pth is written in no other
\* step, and an equal or worse result changes neither.
C1_StrictImprovementOnly ==
    [][LET strict ==
               /\ pc = "compare"
               /\ Did(epoch, "val")
               /\ IF config.eval_type = "ber"
                  THEN FloatLt(Get(result)[3], Get(max_val_v))
                  ELSE FloatGt(Get(result)[1], Get(max_val_v))
       IN  /\ (max_val_v # None /\ max_val_v' # max_val_v) => strict
           /\ (files'.best # files.best \/ BestWrites' # BestWrites) => strict
           /\ strict =>
                 /\ max_val_v' = Some(IF config.eval_type = "ber"
                                      THEN Get(result)[3] ELSE Get(result)[1])
                 /\ BestWrites' = BestWrites + 1
                 /\ files'.best =
                        Some([model_spec     |-> [name |-> config.model.name,
                                                  sd |-> Some(model)],
                              optimizer_spec |-> [name |-> config.optimizer.name,
                                                  sd |-> Some(optimizer)]])
      ]_vars

\* a validation that did not improve on a best written in an earlier epoch
C1_Witness ==
    /\ pc = "log"
    /\ ~Did(epoch, "save_best")
    /\ files.best # None
    /\ CompareMetric(config.eval_type, Get(result)) = Get(max_val_v)

---------------------------------------------------------------------------
(* C2 *)

\* C2: the tracker starts at +infinity (minimised, 'ber') or -infinity
\* (maximised), so whatever the comparison metric's value, the first
\* validation of a run improves on it and writes model_best.pth.
C2_FirstValidationWritesBest ==
    (pc = "log" /\ ValCount = 1) =>
        /\ Did(epoch, "save_best")
        /\ files.best # None
        /\ max_val_v = Some(CompareMetric(config.eval_type, Get(result)))

---------------------------------------------------------------------------
(* C3 *)

OrigRank(s) ==
    CASE s = "train" -> 1
      [] s = "sched" -> 2
      [] s = "val" -> 3
      [] s = "val_error" -> 3
      [] s = "save_last" -> 4
      [] s = "save_best" -> 4
      [] s = "log" -> 5

\* C3 as stated: within an epoch the steps come in the order train,
\* schedule step, validation, checkpoint writing, log; no checkpoint file
\* is written before the epoch's validation.
C3_ValidateBeforeCheckpoint ==
    \A i, j \in DOMAIN trace :
        (/\ i < j
         /\ trace[i][1] = trace[j][1]
         /\ trace[i][2] \notin {"scalars", "val_scalars"}
         /\ trace[j][2] \notin {"scalars", "val_scalars"})
        => OrigRank(trace[i][2]) <= OrigRank(trace[j][2])

StepRank(s) ==
    CASE s = "train" -> 1
      [] s = "sched" -> 2
      [] s = "scalars" -> 3
      [] s = "save_last" -> 4
      [] s = "val" -> 5
      [] s = "val_error" -> 5
      [] s = "val_scalars" -> 6
      [] s = "save_best" -> 7
      [] s = "log" -> 8

\* C3 amended: within an epoch the steps come, each at most once, in the
\* order train, schedule step, training scalars, write of model_last.pth,
\* validation (when due), validation scalars, write of model_best.pth (on
\* improvement), log line; model_last.pth is written before the epoch's
\* validation starts, model_best.pth and the log line only after it has
\* finished.
C3_StepOrder ==
    /\ \A i, j \in DOMAIN trace :
           (i < j /\ trace[i][1] = trace[j][1])
           => StepRank(trace[i][2]) < StepRank(trace[j][2])
    /\ \A j \in DOMAIN trace :
           /\ trace[j][2] \in {"val", "val_error"} =>
                  \E i \in 1..(j - 1) : trace[i] = <<trace[j][1], "save_last">>
           /\ trace[j][2] \in {"save_best", "log"} =>
                  \E i \in 1..(j - 1) : trace[i] = <<trace[j][1], "val">>
           /\ trace[j][2] = "save_last" =>
                  \E i \in 1..(j - 1) : trace[i] = <<trace[j][1], "sched">>
           /\ trace[j][2] = "sched" =>
                  \E i \in 1..(j - 1) : trace[i] = <<trace[j][1], "train">>

\* a validation epoch that went through every step
C3_Witness ==
    /\ pc = "next"
    /\ Did(epoch, "save_last")
    /\ Did(epoch, "val")
    /\ Did(epoch, "save_best")
    /\ Did(epoch, "log")

---------------------------------------------------------------------------
(* C4 *)

C4_OncePerEpoch ==
    /\ \A e \in Epochs :
           Count(e, "save_last") =
               IF e < epoch \/ pc \notin {"sched", "scalars", "save_last"}
               THEN 1 ELSE 0
    /\ files.last # None <=> \E e \in Epochs : Did(e, "save_last")

\* C4 as stated: model_last.pth is written once in every executed epoch,
\* and whenever the run completes normally it holds the state as of the
\* end of training in epoch epoch_max.
C4_LastHoldsEpochMax ==
    /\ C4_OncePerEpoch
    /\ pc = "done" =>
           files.last = Some(RecordOf(config.epoch_max,
                                      config.epoch_max - FirstEpoch + 1))

\* C4 amended: model_last.pth is written once in every executed epoch,
\* with or without validation, and when a run that executed at least one
\* epoch (first epoch <= epoch_max) completes normally it holds the model
\* and optimizer state as of the end of training in epoch epoch_max.
C4_LastHoldsEpochMaxIfAnyEpoch ==
    /\ C4_OncePerEpoch
    /\ (pc = "done" /\ FirstEpoch <= config.epoch_max) =>
           files.last = Some(RecordOf(config.epoch_max,
                                      config.epoch_max - FirstEpoch + 1))

\* a completed run of several epochs, some validated, the last one not
C4_Witness ==
    /\ pc = "done"
    /\ Count(config.epoch_max, "save_last") = 1
    /\ ~Did(config.epoch_max, "val")
    /\ \E e \in Epochs : e < config.epoch_max /\ Did(e, "val")

---------------------------------------------------------------------------
(* C5 *)

\* C5: every epoch the loop has executed has a progress line in the text
\* log and its learning-rate and training-loss scalars, validated or not.
C5_EveryEpochLogged ==
    \A e \in Epochs :
        Completed(e) =>
            /\ \E i \in DOMAIN log : log[i].epoch = e
            /\ {<<"lr", e>>, <<"loss", e>>} \subseteq scalars

---------------------------------------------------------------------------
(* C6 *)

TrainedEpochs == SelectSeq(trace, LAMBDA x : x[2] = "train")

C6_Safety ==
    LET T == TrainedEpochs
    IN  /\ \A i \in DOMAIN T :
               /\ T[i][1] = FirstEpoch + i - 1
               /\ T[i][1] <= config.epoch_max
        /\ pc = "done" =>
               /\ Len(T) = IF FirstEpoch > config.epoch_max THEN 0
                           ELSE config.epoch_max - FirstEpoch + 1
               /\ \A e \in Epochs : Completed(e)
               /\ ~ENABLED Next
        /\ FirstEpoch > config.epoch_max =>
               /\ trace = <<>>
               /\ files.last = None
               /\ files.best = None

\* C6: the epochs executed are first epoch (1, or resume+1), first epoch + 1,
\* ... in increasing order, each once and none above epoch_max; every run
\* ends, in an error or normally, and one that ends normally has executed
\* every epoch up to and including epoch_max and takes no further step; when
\* the first epoch is greater than epoch_max no epoch is executed and no
\* checkpoint is written.
C6_RunsEachEpochOnceThenStops ==
    /\ []C6_Safety
    /\ <>(pc \in {"done", "error"})

\* a resumed run that executed several epochs and completed
C6_Witness ==
    /\ pc = "done"
    /\ config.resume # None
    /\ Len(TrainedEpochs) >= 2

---------------------------------------------------------------------------
(* C7 *)

\* C7: the configuration changes in one step only, the injection of the
\* default data_norm when it is absent; every other step, each save_model
\* call included, leaves it unchanged.
C7_ConfigMutatedOnlyByDataNorm ==
    [][config' # config =>
           /\ pc = "data_norm"
           /\ config.data_norm = None
           /\ config' = [config EXCEPT !.data_norm = DefaultDataNorm]
      ]_vars

---------------------------------------------------------------------------
(* C8 *)

\* C8: no checkpoint file written by the run is read by it, and with resume
\* configured the checkpoint record is read at start-up and the model and
\* optimizer state of epoch resume are restored before the first epoch
\* (resume+1) is trained.
C8_ResumeRestoresState ==
    /\ \A i \in DOMAIN reads :
           reads[i] \notin {"model_last.pth", "model_best.pth"}
    /\ (config.resume # None /\ pc = "train" /\ epoch = FirstEpoch) =>
           /\ reads # <<>>
           /\ reads[Len(reads)] = "checkpoint"
           /\ model.sd = Get(config.resume)
           /\ optimizer.trained = Get(config.resume)

---------------------------------------------------------------------------
(* C9 *)

\* C9: a validation with eval_type one of 'f1', 'fmeasure', 'ber', 'cod'
\* returns four results and that type's four metric names; with any other
\* eval_type the first validation ends the run in an error, and then no
\* model_best.pth has been written and the tracker has its initial value.
C9_EvalTypeDispatch ==
    [][/\ (pc = "eval" /\ config.eval_type \in {"f1", "fmeasure", "ber", "cod"})
           => /\ pc' = "val_scalars"
              /\ Len(Get(result')) = 4
              /\ Len(Get(metric')) = 4
              /\ metric' = Some(MetricNames(config.eval_type))
       /\ (pc = "eval" /\ config.eval_type \notin {"f1", "fmeasure", "ber", "cod"})
           => /\ pc' = "error"
              /\ ValCount' = 0
              /\ BestWrites' = 0
              /\ files'.best = None
              /\ max_val_v' = max_val_v
              /\ max_val_v' = Some(Float(NonBerInit))
      ]_vars

\* an unrecognised eval_type has ended the run in its first validation,
\* after model_last.pth was written
C9_Witness ==
    /\ pc = "error"
    /\ config.eval_type \notin KnownEvalTypes
    /\ Did(epoch, "val_error")
    /\ files.last # None
    /\ files.best = None

---------------------------------------------------------------------------
(* C10 *)

\* C10: in an epoch e that has passed the validation test, validation was
\* entered exactly when epoch_val is configured and e, the absolute epoch
\* number, is a multiple of it; with epoch_val absent there is no
\* validation and no write of model_best.pth in the whole run.
C10_ValidationCadence ==
    /\ \A e \in Epochs :
           (e < epoch \/ pc \in {"eval", "val_scalars", "compare", "log", "next"}
                      \/ (pc = "error" /\ Did(e, "val_error")))
           => ((Did(e, "val") \/ Did(e, "val_error") \/ (e = epoch /\ pc = "eval"))
               <=> (/\ config.epoch_val # None
                    /\ Get(config.epoch_val) > 0
                    /\ e % Get(config.epoch_val) = 0))
    /\ config.epoch_val = None =>
           /\ ValCount = 0
           /\ BestWrites = 0
           /\ files.best = None
           /\ pc \notin {"eval", "val_scalars", "compare", "log"}

\* after a resume, a validation in an epoch whose absolute number is a
\* multiple of epoch_val while the count of epochs run is not
C10_Witness ==
    /\ config.resume # None
    /\ config.epoch_val = Some(2)
    /\ epoch = 2
    /\ epoch - FirstEpoch + 1 = 1
    /\ Did(epoch, "val")

===========================================================================
